---- MODULE Spec2Model ----
(***************************************************************************)
(* Model of the inference request pipeline of the Fruit Ripeness API:      *)
(* the HSV colour gate (backend/app/gate.py), the output resolver, the     *)
(* label ranker and the heat-map renderer (backend/app/utils.py), the      *)
(* request handler POST /predict (backend/app/routes/predict.py) and the   *)
(* application startup (backend/app/main.py).                              *)
(*                                                                         *)
(* Numbers: a probability p is carried as the integer 100*p; a percentage  *)
(* is carried as an exact fraction [n, d] in lowest terms.                 *)
(***************************************************************************)
EXTENDS Integers, Sequences, FiniteSets, TLC

(***************************************************************************)
(* Bounds of the explored inputs.                                          *)
(***************************************************************************)
\* largest pixel count (height*width) of a buffer handed to check_color alone
MaxPixels == 4
\* largest pixel count of an image carried by an upload through /predict
MaxUploadPixels == 2
\* longest output list handed to _parse_model_outputs alone
MaxOutputs == 3
\* longest output list returned by model.predict inside /predict
MaxHeads == 2
\* largest number of scores handed to build_predictions alone
MaxClasses == 3
\* largest top_k handed to build_predictions alone
MaxTopK == 5

None == "None"

(***************************************************************************)
(* Small arithmetic helpers.                                               *)
(***************************************************************************)
Max(a, b) == IF a >= b THEN a ELSE b

Min(a, b) == IF a <= b THEN a ELSE b

RECURSIVE Gcd(_, _)
Gcd(a, b) == IF b = 0 THEN a ELSE Gcd(b, a % b)

\* a / b rounded to the nearest integer (no tie occurs for the operands used)
RoundDiv(a, b) == (2 * a + b) \div (2 * b)

\* the exact fraction n/d in lowest terms, d > 0
Frac(n, d) == [n |-> n \div Gcd(n, d), d |-> d \div Gcd(n, d)]

\* fraction comparison x >= t for an integer t
FracGe(x, t) == x.n >= t * x.d

(***************************************************************************)
(* gate.py: the colour gate.                                               *)
(***************************************************************************)
\* HSV band of the guava colour spectrum, channel order <<H, S, V>>
LOWER_GUAVA == <<25, 40, 40>>

UPPER_GUAVA == <<85, 255, 255>>

DEFAULT_MATCH_PCT_THRESHOLD == 20

\* Pixels are <<c0, c1, c2>> triples of 8-bit samples; an RGB pixel is <<R, G, B>>.
Red == <<255, 0, 0>>

MidGreen == <<0, 128, 0>>

Yellow == <<255, 255, 0>>

DarkGreen == <<0, 39, 0>>

Palette == {Red, MidGreen, Yellow, DarkGreen}

\* shapes (h, w) with at most n pixels
Shapes(n) == {s \in (1..n) \X (1..n) : s[1] * s[2] <= n}

\* pixel buffers (H, W, 3) uint8 with at most n pixels, stored row-major
Buffers(n) == UNION {{[h |-> s[1], w |-> s[2], px |-> p] : p \in [1..(s[1] * s[2]) -> Palette]} : s \in Shapes(n)}

\* cv2.cvtColor(img, cv2.COLOR_RGB2BGR): swap the first and the third channel
RGB2BGR(p) == <<p[3], p[2], p[1]>>

\* OpenCV's 8-bit fixed point tables (hsv_shift = 12, hue range 180)
sdiv_table(i) == IF i = 0 THEN 0 ELSE RoundDiv(255 * 4096, i)

hdiv_table180(i) == IF i = 0 THEN 0 ELSE RoundDiv(180 * 4096, 6 * i)

\* cv2.cvtColor(img, cv2.COLOR_BGR2HSV) on one 8-bit BGR pixel: <<H, S, V>>
\* with H in 0..179 and S, V in 0..255
BGR2HSV(p) ==
    LET b == p[1]
        g == p[2]
        r == p[3]
        v == Max(b, Max(g, r))
        vmin == Min(b, Min(g, r))
        diff == v - vmin
        s == (diff * sdiv_table(v) + 2048) \div 4096
        h0 == IF v = r THEN g - b
              ELSE IF v = g THEN b - r + 2 * diff
              ELSE r - g + 4 * diff
        h1 == (h0 * hdiv_table180(diff) + 2048) \div 4096
        h == IF h1 < 0 THEN h1 + 180 ELSE h1
    IN <<h, s, v>>

\* cv2.inRange on one pixel: every channel inside [lower, upper], bounds included
inRange(hsv, lower, upper) == \A c \in 1..3 : lower[c] <= hsv[c] /\ hsv[c] <= upper[c]

\* np.count_nonzero of the mask of an image
RECURSIVE count_nonzero(_, _)
count_nonzero(mask, n) == IF n = 0 THEN 0 ELSE (IF mask[n] THEN 1 ELSE 0) + count_nonzero(mask, n - 1)

\* GuavaGate.__init__
GuavaGate(threshold, enabled) == [threshold |-> threshold, enabled |-> enabled, available |-> TRUE]

\* check_color, lines 72-81: the number of pixels of img_rgb inside the band
matching_pixels(img_rgb) ==
    LET img_bgr == [i \in 1..Len(img_rgb.px) |-> RGB2BGR(img_rgb.px[i])]
        hsv == [i \in 1..Len(img_bgr) |-> BGR2HSV(img_bgr[i])]
        guava_mask == [i \in 1..Len(hsv) |-> inRange(hsv[i], LOWER_GUAVA, UPPER_GUAVA)]
    IN count_nonzero(guava_mask, Len(guava_mask))

\* the two messages of check_color
gate_message(is_guava) == IF is_guava THEN "Guava confirmed" ELSE "Not a guava"

\* check_color with the threshold compared strictly
check_color_strict(self, img_rgb) ==
    IF ~self.enabled
    THEN [is_guava |-> TRUE, match_pct |-> Frac(100, 1), message |-> "Gate disabled - all images pass"]
    ELSE LET match_pct == Frac(matching_pixels(img_rgb) * 100, img_rgb.h * img_rgb.w)
             is_guava == match_pct.n > self.threshold * match_pct.d
         IN [is_guava |-> is_guava, match_pct |-> match_pct, message |-> gate_message(is_guava)]

\* check_color without the test of self.enabled
check_color_always(self, img_rgb) ==
    LET match_pct == Frac(matching_pixels(img_rgb) * 100, img_rgb.h * img_rgb.w)
        is_guava == FracGe(match_pct, self.threshold)
    IN [is_guava |-> is_guava, match_pct |-> match_pct, message |-> gate_message(is_guava)]

\* GuavaGate.check_color(img_rgb) -> (is_guava, match_pct, message);
\* match_pct is the percentage (matching_pixels / total_pixels) * 100.0
check_color(self, img_rgb) ==
    IF ~self.enabled
    THEN [is_guava |-> TRUE, match_pct |-> Frac(100, 1), message |-> "Gate disabled - all images pass"]
    ELSE LET total_pixels == img_rgb.h * img_rgb.w
             match_pct == Frac(matching_pixels(img_rgb) * 100, total_pixels)
             is_guava == FracGe(match_pct, self.threshold)
         IN [is_guava |-> is_guava, match_pct |-> match_pct, message |-> gate_message(is_guava)]

(***************************************************************************)
(* utils.py: numeric arrays.  An array is its shape and its flattened      *)
(* content (row-major); values are probabilities times 100.                *)
(***************************************************************************)
\* float('nan'), kept apart from every value an array can hold
NaN == 1000000

RECURSIVE Product(_)
Product(shape) == IF shape = <<>> THEN 1 ELSE Head(shape) * Product(Tail(shape))

ndarray(shape, data) == [shape |-> shape, data |-> data]

ndim(arr) == Len(arr.shape)

size(arr) == Product(arr.shape)

\* arr.reshape(1, -1)
reshape_row(arr) == ndarray(<<1, size(arr)>>, arr.data)

\* arr.flatten()
flatten(arr) == arr.data

\* the arrays a model head is drawn from: ranks 0..5, element counts 0..4
ScalarRank0 == ndarray(<<>>, <<50>>)

VecEmpty == ndarray(<<0>>, <<>>)

VecOne == ndarray(<<1>>, <<80>>)

VecTwo == ndarray(<<2>>, <<30, 70>>)

MatEmpty == ndarray(<<1, 0>>, <<>>)

MatHigh == ndarray(<<1, 1>>, <<80>>)

MatLow == ndarray(<<1, 1>>, <<20>>)

Cube == ndarray(<<1, 1, 1>>, <<40>>)

MapSmall == ndarray(<<1, 1, 1, 1>>, <<90>>)

MapTall == ndarray(<<1, 2, 1, 1>>, <<10, 60>>)

MapWide == ndarray(<<1, 1, 2, 1>>, <<60, 60>>)

Rank5 == ndarray(<<1, 1, 1, 1, 1>>, <<70>>)

Arrays == {ScalarRank0, VecEmpty, VecOne, VecTwo, MatEmpty, MatHigh, MatLow, Cube, MapSmall, MapTall, MapWide, Rank5}

\* sequences over S of length 0..n
SeqUpTo(S, n) == UNION {[1..k -> S] : k \in 0..n}

\* what model.predict returns: a list of arrays, or one bare array
RawList(items) == [islist |-> TRUE, items |-> items]

RawArray(arr) == [islist |-> FALSE, items |-> <<arr>>]

\* list.sort(key=...) on <<key, item>> pairs: stable, ascending by key
RECURSIVE insort(_, _)
insort(sorted, pair) ==
    IF sorted = <<>> THEN <<pair>>
    ELSE IF sorted[Len(sorted)][1] <= pair[1] THEN Append(sorted, pair)
    ELSE Append(insort(SubSeq(sorted, 1, Len(sorted) - 1), pair), sorted[Len(sorted)])

RECURSIVE sort_by_key(_)
sort_by_key(pairs) ==
    IF pairs = <<>> THEN <<>>
    ELSE insort(sort_by_key(SubSeq(pairs, 1, Len(pairs) - 1)), pairs[Len(pairs)])

\* the (i, arr) candidates the loop over enumerate(raw) appends, in loop order
RECURSIVE candidates(_, _, _)
candidates(items, n, spatial) ==
    IF n = 0 THEN <<>>
    ELSE LET arr == items[n]
             rest == candidates(items, n - 1, spatial)
         IN IF spatial
            THEN (IF ndim(arr) = 4 THEN Append(rest, <<n - 1, arr>>) ELSE rest)
            ELSE (IF ndim(arr) = 2 THEN Append(rest, <<n - 1, arr>>)
                  ELSE IF ndim(arr) = 1 THEN Append(rest, <<n - 1, reshape_row(arr)>>)
                  ELSE rest)

\* _parse_model_outputs, lines 151-183: the branch taken when raw is a list;
\* a role is <<>> for None, else <<array>>
resolve_list(items) ==
    LET spatial_candidates == candidates(items, Len(items), TRUE)
        classification_candidates == candidates(items, Len(items), FALSE)
        \* sort(key=size, reverse=True) keeps equal keys in their original order
        by_size == sort_by_key([k \in 1..Len(spatial_candidates) |->
                       <<0 - size(spatial_candidates[k][2]), spatial_candidates[k]>>])
        by_index == sort_by_key([k \in 1..Len(classification_candidates) |->
                       <<classification_candidates[k][1], classification_candidates[k]>>])
        thermal == IF spatial_candidates # <<>> THEN <<by_size[1][2][2]>> ELSE <<>>
        ripeness == IF Len(by_index) >= 1 THEN <<by_index[1][2][2]>> ELSE <<>>
        guava_guard == IF Len(by_index) >= 2 THEN <<by_index[2][2][2]>> ELSE <<>>
    IN \* the log call of the guard evaluates flatten()[0] of the second candidate
       IF Len(by_index) >= 2 /\ flatten(by_index[2][2][2]) = <<>>
       THEN [exc |-> "IndexError", ripeness |-> <<>>, thermal |-> <<>>, guava_guard |-> <<>>]
       ELSE [exc |-> None, ripeness |-> ripeness, thermal |-> thermal, guava_guard |-> guava_guard]

\* _parse_model_outputs without the isinstance(raw, list) test
_parse_model_outputs_as_list(raw) == resolve_list(raw.items)

\* _parse_model_outputs(raw): the result dict, or the exception it raises
_parse_model_outputs(raw) ==
    IF ~raw.islist
    THEN [exc |-> None, ripeness |-> <<raw.items[1]>>, thermal |-> <<>>, guava_guard |-> <<>>]
    ELSE resolve_list(raw.items)

\* utils.py: preprocess_image(img_rgb, target_size, channels): the (1, H, W, C)
\* float32 tensor; only its shape is carried, its samples are not modelled
preprocess_image(img_rgb, target_size, chans) ==
    LET h == target_size[1]
        w == target_size[2]
    IN IF chans = 1
       THEN [shape |-> <<1, h, w, 1>>]
       ELSE [shape |-> <<1, h, w, 3>>]

\* arr.min() and arr.max() of a non-empty flattened array
RECURSIVE seq_min(_)
seq_min(d) == IF Len(d) = 1 THEN d[1] ELSE Min(d[1], seq_min(Tail(d)))

RECURSIVE seq_max(_)
seq_max(d) == IF Len(d) = 1 THEN d[1] ELSE Max(d[1], seq_max(Tail(d)))

\* arr.squeeze(): drop the axes of length one
squeeze(arr) == ndarray(SelectSeq(arr.shape, LAMBDA n : n # 1), arr.data)

\* render_thermal_image(thermal_array): the data URI, or the exception raised;
\* encoded tells whether OpenCV's colour map and PNG encoder succeed
render_thermal_image(thermal_array, encoded) ==
    LET arr == squeeze(thermal_array)
    IN IF arr.data = <<>> THEN [exc |-> "ValueError", uri |-> <<>>]
       ELSE LET arr_min == seq_min(arr.data)
                arr_max == seq_max(arr.data)
                arr_norm == IF arr_max - arr_min > 0
                            THEN [k \in 1..Len(arr.data) |-> ((arr.data[k] - arr_min) * 255) \div (arr_max - arr_min)]
                            ELSE [k \in 1..Len(arr.data) |-> 0]
            IN IF ~encoded THEN [exc |-> "RuntimeError", uri |-> <<>>]
               ELSE [exc |-> None, uri |-> <<[scheme |-> "data:image/png;base64", shape |-> arr.shape, grid |-> arr_norm]>>]

\* the label f"class_{i}" and a label read from labels.json
class_(i) == [s |-> "class_", i |-> i]

Label(s) == [s |-> s, i |-> 0 - 1]

\* 1.0 - p
OneMinus(p) == IF p = NaN THEN NaN ELSE 100 - p

\* build_predictions, lines 222-223, with None taken for an empty array
as_float_array_empty(ripeness_array) ==
    IF ripeness_array = <<>> THEN ndarray(<<0>>, <<>>) ELSE ripeness_array[1]

\* build_predictions, lines 222-223: np.array(x, dtype=np.float32) of what is
\* not an array; np.array(None, dtype=np.float32) is the 0-d array holding nan
as_float_array(ripeness_array) ==
    IF ripeness_array = <<>> THEN ndarray(<<>>, <<NaN>>) ELSE ripeness_array[1]

\* the single sigmoid expanded with the two classes exchanged
expand_single_swapped(flat) == IF Len(flat) = 1 THEN <<flat[1], OneMinus(flat[1])>> ELSE flat

\* build_predictions, lines 227-230: a single sigmoid p becomes [1 - p, p]
expand_single(flat) == IF Len(flat) = 1 THEN <<OneMinus(flat[1]), flat[1]>> ELSE flat

\* the label list with the synthesized labels numbered from 0
label_list_from_zero(labels, num_classes) ==
    IF labels = <<>>
    THEN [i \in 1..num_classes |-> class_(i - 1)]
    ELSE IF Len(labels[1]) < num_classes
    THEN labels[1] \o [k \in 1..(num_classes - Len(labels[1])) |-> class_(k - 1)]
    ELSE labels[1]

\* build_predictions, lines 232-238: one label per class, class_<i> where
\* labels is None or too short; labels is <<>> for None, else <<list>>
label_list(labels, num_classes) ==
    IF labels = <<>>
    THEN [i \in 1..num_classes |-> class_(i - 1)]
    ELSE IF Len(labels[1]) < num_classes
    THEN labels[1] \o [k \in 1..(num_classes - Len(labels[1])) |-> class_(Len(labels[1]) + k - 1)]
    ELSE labels[1]

\* results[:top_k] for top_k >= 0
take(results, top_k) == SubSeq(results, 1, Min(top_k, Len(results)))

\* the results sorted ascending (sort without reverse=True), then truncated
rank_results_ascending(results, top_k) ==
    LET sorted == sort_by_key([i \in 1..Len(results) |-> <<results[i].confidence, results[i]>>])
    IN take([i \in 1..Len(results) |-> sorted[i][2]], top_k)

\* build_predictions, lines 244-245: results.sort(key=confidence, reverse=True),
\* which is stable, then results[:top_k]
rank_results(results, top_k) ==
    LET sorted == sort_by_key([i \in 1..Len(results) |-> <<0 - results[i].confidence, results[i]>>])
    IN take([i \in 1..Len(results) |-> sorted[i][2]], top_k)

\* build_predictions(ripeness_array, labels, top_k): ripeness_array and labels
\* are <<>> for None, else <<value>>
build_predictions(ripeness_array, labels, top_k) ==
    LET probs == expand_single(flatten(as_float_array(ripeness_array)))
        num_classes == Len(probs)
        labelled == label_list(labels, num_classes)
        results == [i \in 1..num_classes |-> [label |-> labelled[i], confidence |-> probs[i]]]
    IN rank_results(results, top_k)

(***************************************************************************)
(* utils.py: model shape helpers and image decoding.                       *)
(***************************************************************************)
DEFAULT_IMG_SIZE == <<224, 224>>

\* a dimension Keras leaves open (None in model.input_shape)
AnyDim == 0 - 1

\* get_model_input_size(model)
get_model_input_size(m) ==
    IF Len(m.input_shape) = 4 /\ m.input_shape[2] # AnyDim /\ m.input_shape[3] # AnyDim
    THEN <<m.input_shape[2], m.input_shape[3]>>
    ELSE DEFAULT_IMG_SIZE

\* get_model_channels(model)
get_model_channels(m) ==
    IF m.input_shape # <<>> /\ m.input_shape[Len(m.input_shape)] # AnyDim
    THEN m.input_shape[Len(m.input_shape)]
    ELSE 3

\* the pixels of a buffer with the first and third channel exchanged
\* (cv2.imdecode yields BGR; cv2.COLOR_BGR2RGB turns it into RGB)
swap_channels(img) == [img EXCEPT !.px = [i \in 1..Len(img.px) |-> RGB2BGR(img.px[i])]]

\* decoding that gives up when OpenCV fails, Pillow never tried
decode_image_no_fallback(file_bytes) ==
    IF file_bytes.cv = "ok"
    THEN [exc |-> None, img |-> <<swap_channels(swap_channels(file_bytes.image[1]))>>, tried |-> <<"cv2.imdecode">>]
    ELSE [exc |-> "ValueError", img |-> <<>>, tried |-> <<"cv2.imdecode">>]

\* decode_image(file_bytes): OpenCV first, Pillow fallback.  file_bytes.cv is
\* what cv2.imdecode does on the bytes ("ok", "none", "raise"), file_bytes.pil
\* what Pillow does ("ok", "raise"), file_bytes.image the RGB picture encoded
decode_image(file_bytes) ==
    IF file_bytes.cv = "ok"
    THEN [exc |-> None, img |-> <<swap_channels(swap_channels(file_bytes.image[1]))>>, tried |-> <<"cv2.imdecode">>]
    ELSE IF file_bytes.pil = "ok"
    THEN [exc |-> None, img |-> <<file_bytes.image[1]>>, tried |-> <<"cv2.imdecode", "Image.open">>]
    ELSE [exc |-> "ValueError", img |-> <<>>, tried |-> <<"cv2.imdecode", "Image.open">>]

(***************************************************************************)
(* routes/predict.py and main.py: the request handler and the startup.     *)
(***************************************************************************)
\* the default of the top_k parameter of build_predictions
DEFAULT_TOP_K == 5

MAX_UPLOAD_BYTES == 20 * 1024 * 1024

ALLOWED_CONTENT_TYPES == {"image/jpeg", "image/jpg", "image/png", "image/webp", "image/bmp", "image/tiff", "application/octet-stream"}

VARIABLES started, model, labels, input_size, channels, gate, pc, upload, img_rgb, decision, input_array, raw, outputs, predictions, thermal_b64, response, calls, top_k

vars == <<started, model, labels, input_size, channels, gate, pc, upload, img_rgb, decision, input_array, raw, outputs, predictions, thermal_b64, response, calls, top_k>>

appvars == <<started, model, labels, input_size, channels, gate>>

\* input shapes of the Keras model file: fixed geometry, or open height/width
ModelShapes == {<<AnyDim, 2, 3, 1>>, <<AnyDim, AnyDim, AnyDim, 3>>}

\* what labels.json yields: <<>> when missing or invalid, else the list
LabelFiles == {<<>>, <<<<Label("unripe"), Label("ripe")>>>>}

\* gate thresholds (percent) tried
Thresholds == {0, DEFAULT_MATCH_PCT_THRESHOLD, 50, 100}

\* the gates a context is configured with: enabled with each threshold, or
\* disabled with the default threshold
GateConfigs == {GuavaGate(t, TRUE) : t \in Thresholds} \cup {GuavaGate(DEFAULT_MATCH_PCT_THRESHOLD, FALSE)}

\* the uploads tried: content type and file content
NoBytes == [len |-> 0, cv |-> "none", pil |-> "raise", image |-> <<>>]

HugeBytes == [len |-> MAX_UPLOAD_BYTES + 1, cv |-> "ok", pil |-> "ok", image |-> <<[h |-> 1, w |-> 1, px |-> <<MidGreen>>]>>]

ImageBytes(cv, pil, img) == [len |-> MAX_UPLOAD_BYTES, cv |-> cv, pil |-> pil, image |-> <<img>>]

GarbageBytes(cv) == [len |-> 1, cv |-> cv, pil |-> "raise", image |-> <<>>]

OnePixel(c) == [h |-> 1, w |-> 1, px |-> <<c>>]

Uploads ==
    {[content_type |-> "image/png", file_bytes |-> ImageBytes("ok", "ok", b)] : b \in Buffers(MaxUploadPixels)}
    \cup {[content_type |-> "", file_bytes |-> ImageBytes(cv, "ok", OnePixel(Yellow))] : cv \in {"none", "raise"}}
    \cup {[content_type |-> ct, file_bytes |-> GarbageBytes(cv)] : ct \in {"application/octet-stream"}, cv \in {"none", "raise"}}
    \cup {[content_type |-> ct, file_bytes |-> fb] : ct \in {"text/plain", "image/jpeg"}, fb \in {NoBytes, HugeBytes}}

\* the arrays and outputs the model returns inside /predict
HeadArrays == {MatHigh, MatEmpty, VecOne, MapTall}

ModelOutputs == {RawList(items) : items \in SeqUpTo(HeadArrays, MaxHeads)} \cup {RawArray(a) : a \in HeadArrays}

NoResponse == <<>>

\* one entry of the per-request record of the collaborators invoked: the
\* function and, for the stages that read the decoded image, that image
Call(fn, img) == [fn |-> fn, img |-> img]

\* an HTTPException or an unhandled exception as the client sees it
ErrorResponse(status, error) ==
    <<[status |-> status, success |-> FALSE, error |-> error, is_guava |-> <<>>, message |-> <<>>,
       gate_confidence |-> <<>>, predictions |-> <<>>, thermal_image |-> <<>>]>>

\* JSONResponse(content={"success": True, ...}) with status 200; predictions
\* is <<list>>, thermal_image is <<>> for null
OkResponse(is_guava, d, preds, thermal) ==
    <<[status |-> 200, success |-> TRUE, error |-> "", is_guava |-> <<is_guava>>, message |-> <<d.message>>,
       gate_confidence |-> <<RoundDiv(d.match_pct.n * 100, d.match_pct.d)>>,
       predictions |-> <<preds>>, thermal_image |-> thermal]>>

Init ==
    /\ started = FALSE
    /\ model = <<>>
    /\ labels = <<>>
    /\ input_size = DEFAULT_IMG_SIZE
    /\ channels = 3
    /\ gate = <<>>
    /\ pc = "idle"
    /\ upload = <<>>
    /\ img_rgb = <<>>
    /\ decision = <<>>
    /\ input_array = <<>>
    /\ raw = <<>>
    /\ outputs = <<>>
    /\ predictions = <<>>
    /\ thermal_b64 = <<>>
    /\ response = NoResponse
    /\ calls = <<>>
    /\ top_k = DEFAULT_TOP_K

\* main.py lifespan: load the model and the labels, expose them on app.state
lifespan ==
    /\ ~started
    /\ \E exists \in BOOLEAN, loads \in BOOLEAN, shape \in ModelShapes, lab \in LabelFiles :
          LET m == [input_shape |-> shape]
              loaded == exists /\ loads
          IN /\ model' = IF loaded THEN <<m>> ELSE <<>>
             /\ input_size' = IF loaded THEN get_model_input_size(m) ELSE <<224, 224>>
             /\ channels' = IF loaded THEN get_model_channels(m) ELSE 3
             /\ labels' = lab
    /\ started' = TRUE
    /\ UNCHANGED <<gate, pc, upload, img_rgb, decision, input_array, raw, outputs, predictions, thermal_b64, response, calls, top_k>>

\* the context is given its gate configuration (threshold percentage, enabled flag)
ConfigureGate ==
    /\ started
    /\ pc = "idle"
    /\ gate = <<>>
    /\ \E g \in GateConfigs : gate' = <<g>>
    /\ UNCHANGED <<started, model, labels, input_size, channels, pc, upload, img_rgb, decision, input_array, raw, outputs, predictions, thermal_b64, response, calls, top_k>>

\* a POST /predict arrives
Receive ==
    /\ started
    /\ pc = "idle"
    /\ \E u \in Uploads : upload' = <<u>>
    /\ pc' = "guard"
    /\ UNCHANGED <<img_rgb, decision, input_array, raw, outputs, predictions, thermal_b64, response, calls>>
    /\ UNCHANGED appvars
    /\ UNCHANGED top_k

\* the guards of predict without the check that a model is loaded
PredictGuard_NoModelCheck ==
    /\ pc = "guard"
    /\ LET content_type == upload[1].content_type
           file_bytes == upload[1].file_bytes
       IN IF content_type # "" /\ content_type \notin ALLOWED_CONTENT_TYPES
          THEN response' = ErrorResponse(400, "Unsupported content type") /\ pc' = "done"
          ELSE IF file_bytes.len = 0
          THEN response' = ErrorResponse(400, "Empty file") /\ pc' = "done"
          ELSE IF file_bytes.len > MAX_UPLOAD_BYTES
          THEN response' = ErrorResponse(400, "File too large") /\ pc' = "done"
          ELSE response' = response /\ pc' = "decode"
    /\ UNCHANGED <<upload, img_rgb, decision, input_array, raw, outputs, predictions, thermal_b64, calls>>
    /\ UNCHANGED appvars
    /\ UNCHANGED top_k

\* predict, lines 34-63: model guard, content type, size of the body
PredictGuard ==
    /\ pc = "guard"
    /\ LET content_type == upload[1].content_type
           file_bytes == upload[1].file_bytes
       IN IF model = <<>>
          THEN response' = ErrorResponse(503, "Model not loaded") /\ pc' = "done"
          ELSE IF content_type # "" /\ content_type \notin ALLOWED_CONTENT_TYPES
          THEN response' = ErrorResponse(400, "Unsupported content type") /\ pc' = "done"
          ELSE IF file_bytes.len = 0
          THEN response' = ErrorResponse(400, "Empty file") /\ pc' = "done"
          ELSE IF file_bytes.len > MAX_UPLOAD_BYTES
          THEN response' = ErrorResponse(400, "File too large") /\ pc' = "done"
          ELSE response' = response /\ pc' = "decode"
    /\ UNCHANGED <<upload, img_rgb, decision, input_array, raw, outputs, predictions, thermal_b64, calls>>
    /\ UNCHANGED appvars
    /\ UNCHANGED top_k

\* predict, lines 65-71: decode the image
PredictDecode ==
    /\ pc = "decode"
    /\ LET r == decode_image(upload[1].file_bytes)
       IN /\ calls' = calls \o [k \in 1..Len(r.tried) |-> Call(r.tried[k], <<>>)]
          /\ IF r.exc # None
             THEN /\ response' = ErrorResponse(400, "Cannot decode image")
                  /\ pc' = "done"
                  /\ img_rgb' = img_rgb
             ELSE /\ response' = response
                  /\ pc' = "gate"
                  /\ img_rgb' = r.img
    /\ UNCHANGED <<upload, decision, input_array, raw, outputs, predictions, thermal_b64>>
    /\ UNCHANGED appvars
    /\ UNCHANGED top_k

\* the gate step without the early return of a rejection
PredictGate_NoReturn ==
    /\ pc = "gate"
    /\ IF gate = <<>>
       THEN /\ response' = ErrorResponse(500, "Internal Server Error")
            /\ pc' = "done"
            /\ UNCHANGED <<decision, calls>>
       ELSE LET d == check_color(gate[1], img_rgb[1])
            IN /\ decision' = <<d>>
               /\ calls' = Append(calls, Call("check_color", img_rgb))
               /\ response' = response
               /\ pc' = "preprocess"
    /\ UNCHANGED <<upload, img_rgb, input_array, raw, outputs, predictions, thermal_b64>>
    /\ UNCHANGED appvars
    /\ UNCHANGED top_k

\* the gate step answering a rejection with an HTTP error
PredictGate_RejectAsError ==
    /\ pc = "gate"
    /\ IF gate = <<>>
       THEN /\ response' = ErrorResponse(500, "Internal Server Error")
            /\ pc' = "done"
            /\ UNCHANGED <<decision, calls>>
       ELSE LET d == check_color(gate[1], img_rgb[1])
            IN /\ decision' = <<d>>
               /\ calls' = Append(calls, Call("check_color", img_rgb))
               /\ IF ~d.is_guava
                  THEN response' = ErrorResponse(400, "Not a guava") /\ pc' = "done"
                  ELSE response' = response /\ pc' = "preprocess"
    /\ UNCHANGED <<upload, img_rgb, input_array, raw, outputs, predictions, thermal_b64>>
    /\ UNCHANGED appvars
    /\ UNCHANGED top_k

\* predict, lines 73-91: the colour gate and the early return of a rejection
PredictGate ==
    /\ pc = "gate"
    /\ IF gate = <<>>
       THEN \* state.gate was never set: AttributeError, unhandled
            /\ response' = ErrorResponse(500, "Internal Server Error")
            /\ pc' = "done"
            /\ UNCHANGED <<decision, calls>>
       ELSE LET d == check_color(gate[1], img_rgb[1])
            IN /\ decision' = <<d>>
               /\ calls' = Append(calls, Call("check_color", img_rgb))
               /\ IF ~d.is_guava
                  THEN response' = OkResponse(FALSE, d, <<>>, <<>>) /\ pc' = "done"
                  ELSE response' = response /\ pc' = "preprocess"
    /\ UNCHANGED <<upload, img_rgb, input_array, raw, outputs, predictions, thermal_b64>>
    /\ UNCHANGED appvars
    /\ UNCHANGED top_k

\* predict, line 94: preprocess
PredictPreprocess ==
    /\ pc = "preprocess"
    /\ input_array' = <<preprocess_image(img_rgb[1], input_size, channels)>>
    /\ calls' = Append(calls, Call("preprocess_image", img_rgb))
    /\ pc' = "inference"
    /\ UNCHANGED <<upload, img_rgb, decision, raw, outputs, predictions, thermal_b64, response>>
    /\ UNCHANGED appvars
    /\ UNCHANGED top_k

\* run_inference(model, input_array): model.predict raises (predicted = <<>>)
\* or returns predicted[1], which _parse_model_outputs resolves
run_inference(predicted) ==
    IF predicted = <<>>
    THEN [exc |-> "Exception", ripeness |-> <<>>, thermal |-> <<>>, guava_guard |-> <<>>]
    ELSE _parse_model_outputs(predicted[1])

\* predict, lines 96-103: run inference
PredictInference ==
    /\ pc = "inference"
    /\ \E predicted \in {<<>>} \cup {<<r>> : r \in ModelOutputs} :
          LET out == run_inference(predicted)
          IN /\ raw' = predicted
             /\ calls' = calls \o (IF predicted = <<>> THEN <<Call("model.predict", <<>>)>>
                                   ELSE <<Call("model.predict", <<>>), Call("_parse_model_outputs", <<>>)>>)
             /\ IF out.exc # None
                THEN /\ response' = ErrorResponse(500, "Inference failed")
                     /\ pc' = "done"
                     /\ outputs' = outputs
                ELSE /\ response' = response
                     /\ pc' = "build"
                     /\ outputs' = <<out>>
    /\ UNCHANGED <<upload, img_rgb, decision, input_array, predictions, thermal_b64>>
    /\ UNCHANGED appvars
    /\ UNCHANGED top_k

\* predict, line 106: build the ripeness predictions (top_k left at its default)
PredictBuild ==
    /\ pc = "build"
    /\ predictions' = build_predictions(outputs[1].ripeness, labels, top_k)
    /\ calls' = Append(calls, Call("build_predictions", <<>>))
    /\ pc' = "render"
    /\ UNCHANGED <<upload, img_rgb, decision, input_array, raw, outputs, thermal_b64, response>>
    /\ UNCHANGED appvars
    /\ UNCHANGED top_k

\* the render step letting a failure of render_thermal_image end the request
PredictRender_Propagate ==
    /\ pc = "render"
    /\ IF outputs[1].thermal # <<>>
       THEN \E encoded \in BOOLEAN :
               LET r == render_thermal_image(outputs[1].thermal[1], encoded)
               IN /\ thermal_b64' = IF r.exc = None THEN r.uri ELSE <<>>
                  /\ calls' = Append(calls, Call("render_thermal_image", <<>>))
                  /\ IF r.exc = None
                     THEN response' = response /\ pc' = "respond"
                     ELSE response' = ErrorResponse(500, "Internal Server Error") /\ pc' = "done"
       ELSE UNCHANGED <<thermal_b64, calls, response>> /\ pc' = "respond"
    /\ UNCHANGED <<upload, img_rgb, decision, input_array, raw, outputs, predictions>>
    /\ UNCHANGED appvars
    /\ UNCHANGED top_k

\* predict, lines 108-115: render the thermal image, a failure is only logged
PredictRender ==
    /\ pc = "render"
    /\ IF outputs[1].thermal # <<>>
       THEN \E encoded \in BOOLEAN :
               LET r == render_thermal_image(outputs[1].thermal[1], encoded)
               IN /\ thermal_b64' = IF r.exc = None THEN r.uri ELSE <<>>
                  /\ calls' = Append(calls, Call("render_thermal_image", <<>>))
       ELSE UNCHANGED <<thermal_b64, calls>>
    /\ pc' = "respond"
    /\ UNCHANGED <<upload, img_rgb, decision, input_array, raw, outputs, predictions, response>>
    /\ UNCHANGED appvars
    /\ UNCHANGED top_k

\* json.dumps(content, allow_nan=False) of JSONResponse accepts the predictions
json_serializable(preds) == \A i \in 1..Len(preds) : preds[i].confidence # NaN

\* predict, lines 117-128: the success response; a NaN confidence makes
\* JSONResponse raise ValueError, which nothing handles
PredictRespond ==
    /\ pc = "respond"
    /\ response' = IF json_serializable(predictions)
                   THEN OkResponse(TRUE, decision[1], predictions, thermal_b64)
                   ELSE ErrorResponse(500, "Internal Server Error")
    /\ pc' = "done"
    /\ UNCHANGED <<upload, img_rgb, decision, input_array, raw, outputs, predictions, thermal_b64, calls>>
    /\ UNCHANGED appvars
    /\ UNCHANGED top_k

\* the response is sent and predict returns: its locals are gone, the server
\* waits for the next request
Finish ==
    /\ pc = "done"
    /\ pc' = "idle"
    /\ upload' = <<>>
    /\ img_rgb' = <<>>
    /\ decision' = <<>>
    /\ input_array' = <<>>
    /\ raw' = <<>>
    /\ outputs' = <<>>
    /\ predictions' = <<>>
    /\ thermal_b64' = <<>>
    /\ response' = NoResponse
    /\ calls' = <<>>
    /\ UNCHANGED appvars
    /\ UNCHANGED top_k

Next ==
    \/ lifespan
    \/ ConfigureGate
    \/ Receive
    \/ PredictGuard
    \/ PredictDecode
    \/ PredictGate
    \/ PredictPreprocess
    \/ PredictInference
    \/ PredictBuild
    \/ PredictRender
    \/ PredictRespond
    \/ Finish

Spec == Init /\ [][Next]_vars

(***************************************************************************)
(* check_color applied on its own to every gate configuration and buffer.  *)
(***************************************************************************)
InitGate ==
    /\ started = TRUE
    /\ model = <<>>
    /\ labels = <<>>
    /\ input_size = DEFAULT_IMG_SIZE
    /\ channels = 3
    /\ \E t \in Thresholds, e \in BOOLEAN : gate = <<GuavaGate(t, e)>>
    /\ pc = "call"
    /\ upload = <<>>
    /\ img_rgb \in {<<b>> : b \in Buffers(MaxPixels)}
    /\ decision = <<>>
    /\ input_array = <<>>
    /\ raw = <<>>
    /\ outputs = <<>>
    /\ predictions = <<>>
    /\ thermal_b64 = <<>>
    /\ response = NoResponse
    /\ calls = <<>>
    /\ top_k = DEFAULT_TOP_K

CheckColor ==
    /\ pc = "call"
    /\ decision' = <<check_color(gate[1], img_rgb[1])>>
    /\ pc' = "return"
    /\ UNCHANGED <<upload, img_rgb, input_array, raw, outputs, predictions, thermal_b64, response, calls>>
    /\ UNCHANGED appvars
    /\ UNCHANGED top_k

NextGate == CheckColor

SpecGate == InitGate /\ [][NextGate]_vars

(***************************************************************************)
(* _parse_model_outputs applied on its own to every output set.            *)
(***************************************************************************)
RawOutputs == {RawList(items) : items \in SeqUpTo(Arrays, MaxOutputs)} \cup {RawArray(a) : a \in Arrays}

InitResolve ==
    /\ started = TRUE
    /\ model = <<>>
    /\ labels = <<>>
    /\ input_size = DEFAULT_IMG_SIZE
    /\ channels = 3
    /\ gate = <<>>
    /\ pc = "call"
    /\ upload = <<>>
    /\ img_rgb = <<>>
    /\ decision = <<>>
    /\ input_array = <<>>
    /\ raw \in {<<r>> : r \in RawOutputs}
    /\ outputs = <<>>
    /\ predictions = <<>>
    /\ thermal_b64 = <<>>
    /\ response = NoResponse
    /\ calls = <<>>
    /\ top_k = DEFAULT_TOP_K

Resolve ==
    /\ pc = "call"
    /\ outputs' = <<_parse_model_outputs(raw[1])>>
    /\ pc' = "return"
    /\ UNCHANGED <<upload, img_rgb, decision, input_array, raw, predictions, thermal_b64, response, calls>>
    /\ UNCHANGED appvars
    /\ UNCHANGED top_k

NextResolve == Resolve

SpecResolve == InitResolve /\ [][NextResolve]_vars

(***************************************************************************)
(* build_predictions applied on its own to every score array, label list   *)
(* and top_k.                                                              *)
(***************************************************************************)
Probs == {20, 50, 80}

\* the ripeness arrays tried: one row of 0..MaxClasses scores
ScoreArrays == {ndarray(<<1, Len(d)>>, d) : d \in SeqUpTo(Probs, MaxClasses)}

AllLabels == <<Label("unripe"), Label("ripe"), Label("overripe"), Label("rotten")>>

\* the labels tried: None, or the first 0..4 labels
LabelLists == {<<>>} \cup {<<SubSeq(AllLabels, 1, n)>> : n \in 0..Len(AllLabels)}

InitRank ==
    /\ started = TRUE
    /\ model = <<>>
    /\ labels \in LabelLists
    /\ input_size = DEFAULT_IMG_SIZE
    /\ channels = 3
    /\ gate = <<>>
    /\ pc = "call"
    /\ upload = <<>>
    /\ img_rgb = <<>>
    /\ decision = <<>>
    /\ input_array = <<>>
    /\ raw = <<>>
    /\ outputs \in {<<[exc |-> None, ripeness |-> <<a>>, thermal |-> <<>>, guava_guard |-> <<>>]>> : a \in ScoreArrays}
    /\ predictions = <<>>
    /\ thermal_b64 = <<>>
    /\ response = NoResponse
    /\ calls = <<>>
    /\ top_k \in 0..MaxTopK

Rank ==
    /\ pc = "call"
    /\ predictions' = build_predictions(outputs[1].ripeness, labels, top_k)
    /\ pc' = "return"
    /\ UNCHANGED <<upload, img_rgb, decision, input_array, raw, outputs, thermal_b64, response, calls, top_k>>
    /\ UNCHANGED appvars

NextRank == Rank

SpecRank == InitRank /\ [][NextRank]_vars

(***************************************************************************)
(* preprocess_image applied on its own to every picture, target size and   *)
(* channel count.                                                          *)
(***************************************************************************)
\* the (height, width) targets tried
TargetSizes == {<<1, 1>>, <<2, 3>>, DEFAULT_IMG_SIZE}

\* the channel counts tried
TargetChannels == {1, 2, 3, 4}

InitNormalize ==
    /\ started = TRUE
    /\ model = <<>>
    /\ labels = <<>>
    /\ input_size \in TargetSizes
    /\ channels \in TargetChannels
    /\ gate = <<>>
    /\ pc = "call"
    /\ upload = <<>>
    /\ img_rgb \in {<<b>> : b \in Buffers(MaxUploadPixels)}
    /\ decision = <<>>
    /\ input_array = <<>>
    /\ raw = <<>>
    /\ outputs = <<>>
    /\ predictions = <<>>
    /\ thermal_b64 = <<>>
    /\ response = NoResponse
    /\ calls = <<>>
    /\ top_k = DEFAULT_TOP_K

Normalize ==
    /\ pc = "call"
    /\ input_array' = <<preprocess_image(img_rgb[1], input_size, channels)>>
    /\ pc' = "return"
    /\ UNCHANGED <<upload, img_rgb, decision, raw, outputs, predictions, thermal_b64, response, calls, top_k>>
    /\ UNCHANGED appvars

NextNormalize == Normalize

SpecNormalize == InitNormalize /\ [][NextNormalize]_vars

(***************************************************************************)
(* Properties.                                                             *)
(***************************************************************************)
\* the positions of calls that hold a call of fn
CallsOf(fn) == {k \in 1..Len(calls) : calls[k].fn = fn}

\* the stages of predict that follow the gate
LaterStages == {"preprocess_image", "model.predict", "_parse_model_outputs", "build_predictions", "render_thermal_image"}

\* the picture the uploaded file encodes
UploadedImage == upload[1].file_bytes.image

\* C1: the model is invoked for a request only after check_color has been
\* evaluated on the decoded pixels of that request and has returned
\* is_guava = TRUE; a request whose decision is is_guava = FALSE never reaches
\* the model.
C1_ModelOnlyAfterGatePass ==
    /\ \A k \in CallsOf("model.predict") :
          /\ decision # <<>> /\ decision[1].is_guava
          /\ \E j \in 1..(k - 1) : calls[j] = Call("check_color", UploadedImage)
    /\ (decision # <<>> /\ ~decision[1].is_guava) => (CallsOf("model.predict") = {} /\ raw = <<>>)

C1_Witness ==
    /\ pc = "build"
    /\ gate # <<>> /\ gate[1].enabled /\ gate[1].threshold = 50
    /\ img_rgb = <<[h |-> 1, w |-> 2, px |-> <<Red, Yellow>>]>>
    /\ CallsOf("model.predict") # {}

\* C2: a gate-rejected request ends as a success (status 200, success) with
\* is_guava = FALSE, no predictions, no thermal image, the gate's match
\* fraction and message, and none of the later stages has run.
C2_RejectionIsTerminalSuccess ==
    (decision # <<>> /\ ~decision[1].is_guava) =>
        /\ pc \in {"done", "idle"}
        /\ response # NoResponse
        /\ response[1].status = 200 /\ response[1].success
        /\ response[1].is_guava = <<FALSE>>
        /\ response[1].predictions = << <<>> >>
        /\ response[1].thermal_image = <<>>
        /\ response[1].gate_confidence = <<RoundDiv(decision[1].match_pct.n * 100, decision[1].match_pct.d)>>
        /\ response[1].message = <<decision[1].message>>
        /\ \A k \in 1..Len(calls) : calls[k].fn \notin LaterStages
        /\ input_array = <<>> /\ raw = <<>> /\ outputs = <<>> /\ predictions = <<>> /\ thermal_b64 = <<>>

C2_Witness ==
    /\ pc = "done"
    /\ gate = <<GuavaGate(DEFAULT_MATCH_PCT_THRESHOLD, TRUE)>>
    /\ img_rgb = <<[h |-> 2, w |-> 1, px |-> <<Red, Red>>]>>
    /\ response # NoResponse /\ response[1].is_guava = <<FALSE>>

\* whether an RGB pixel lies in the band H 25..85, S 40..255, V 40..255
InGuavaBand(rgb) ==
    LET hsv == BGR2HSV(<<rgb[3], rgb[2], rgb[1]>>)
    IN /\ 25 <= hsv[1] /\ hsv[1] <= 85
       /\ 40 <= hsv[2] /\ hsv[2] <= 255
       /\ 40 <= hsv[3] /\ hsv[3] <= 255

\* the number of pixels of a buffer inside the band
BandCount(img) == Cardinality({i \in 1..Len(img.px) : InGuavaBand(img.px[i])})

C4_DisabledGatePassesAll ==
    (pc = "return" /\ decision # <<>> /\ ~gate[1].enabled) =>
        /\ decision[1].is_guava
        /\ decision[1].match_pct = [n |-> 100, d |-> 1]

C4_Witness ==
    /\ pc = "return" /\ decision # <<>>
    /\ ~gate[1].enabled /\ gate[1].threshold = 100
    /\ BandCount(img_rgb[1]) = 0
    /\ decision[1].is_guava

\* the positions of items holding a scalar candidate (rank 1 or 2)
ScalarIdx(items) == {i \in 1..Len(items) : Len(items[i].shape) \in {1, 2}}

\* the positions of items holding a spatial candidate (rank 4)
SpatialIdx(items) == {i \in 1..Len(items) : Len(items[i].shape) = 4}

\* a scalar candidate as a rank-2 array with one row
AsRow(a) == IF Len(a.shape) = 1 THEN [shape |-> <<1, Len(a.data)>>, data |-> a.data] ELSE a

Lowest(S) == CHOOSE i \in S : \A j \in S : i <= j

\* the roles resolve is to give the scalar candidates of items
ExpectedRipeness(items) ==
    IF ScalarIdx(items) = {} THEN <<>> ELSE <<AsRow(items[Lowest(ScalarIdx(items))])>>

ExpectedGuard(items) ==
    IF Cardinality(ScalarIdx(items)) < 2 THEN <<>>
    ELSE <<AsRow(items[Lowest(ScalarIdx(items) \ {Lowest(ScalarIdx(items))})])>>

\* the thermal role resolve is to give: largest element count, lowest position
ExpectedThermal(items) ==
    LET T == SpatialIdx(items)
        Best == {i \in T : \A j \in T : Len(items[j].data) <= Len(items[i].data)}
    IN IF T = {} THEN <<>> ELSE <<items[Lowest(Best)]>>

\* C5: for every output list, resolve gives ripeness to the scalar candidate
\* at the lowest position and guard to the one at the next lowest position,
\* whatever the values and sizes of the elements and wherever the rank-4
\* elements sit; further scalar candidates are ignored.
C5_ScalarRolesByPosition ==
    (pc = "return" /\ outputs # <<>> /\ raw[1].islist) =>
        /\ outputs[1].exc = None
        /\ outputs[1].ripeness = ExpectedRipeness(raw[1].items)
        /\ outputs[1].guava_guard = ExpectedGuard(raw[1].items)

\* C6: for every output list, resolve sets thermal to the rank-4 element
\* with the largest element count, the lowest position among equals, and
\* leaves it absent when there is no rank-4 element.
C6_ThermalIsLargestSpatial ==
    (pc = "return" /\ outputs # <<>> /\ raw[1].islist) =>
        /\ outputs[1].exc = None
        /\ outputs[1].thermal = ExpectedThermal(raw[1].items)

\* C7: a bare array of any rank, or a one-element list holding a rank-2
\* array of shape (1, 1), resolves to ripeness = that array with thermal and
\* guard absent.
C7_SingleArrayIsRipeness ==
    (pc = "return" /\ outputs # <<>>) =>
        ((~raw[1].islist \/ (Len(raw[1].items) = 1 /\ raw[1].items[1].shape = <<1, 1>>)) =>
            outputs[1] = [exc |-> None, ripeness |-> <<raw[1].items[1]>>, thermal |-> <<>>, guava_guard |-> <<>>])

C7_Witness ==
    /\ pc = "return" /\ outputs # <<>>
    /\ raw = <<RawArray(MapTall)>>
    /\ outputs[1].ripeness = <<MapTall>>
    /\ outputs[1].thermal = <<>>

\* C8: resolve called on an empty output list raises MalformedOutputError.
C8_EmptyRaises ==
    (pc = "return" /\ outputs # <<>> /\ raw = <<RawList(<<>>)>>) => outputs[1].exc = "MalformedOutputError"

\* C9: resolve never raises for a non-empty list of numeric arrays, whatever
\* their ranks, order and element counts.
C9_NeverRaises ==
    (pc = "return" /\ outputs # <<>> /\ raw[1].islist /\ raw[1].items # <<>>) => outputs[1].exc = None

\* The roles are as C5 and C6 describe them whenever resolve returns.
RolesWhenReturned ==
    (pc = "return" /\ outputs # <<>> /\ raw[1].islist /\ outputs[1].exc = None) =>
        /\ outputs[1].ripeness = ExpectedRipeness(raw[1].items)
        /\ outputs[1].guava_guard = ExpectedGuard(raw[1].items)
        /\ outputs[1].thermal = ExpectedThermal(raw[1].items)

\* resolve raises only through the log call on an empty second scalar candidate.
RaisesOnlyOnEmptyGuard ==
    (pc = "return" /\ outputs # <<>> /\ outputs[1].exc # None) =>
        /\ outputs[1].exc = "IndexError"
        /\ ExpectedGuard(raw[1].items) # <<>>
        /\ ExpectedGuard(raw[1].items)[1].data = <<>>

\* C10: a gate-passed request whose resolved outputs lack the ripeness role
\* ends as an error, and no success response of a gate-passed request comes
\* from outputs without the ripeness role.
C10_AbsentRipenessIsError ==
    /\ (pc \in {"done", "idle"} /\ outputs # <<>> /\ outputs[1].ripeness = <<>>) =>
          (response # NoResponse /\ ~response[1].success /\ response[1].status = 500)
    /\ (response # NoResponse /\ response[1].success /\ response[1].is_guava = <<TRUE>>) =>
          (outputs # <<>> /\ outputs[1].ripeness # <<>>)

C10_Witness ==
    /\ pc = "done"
    /\ decision # <<>> /\ decision[1].is_guava
    /\ raw = <<RawList(<<MapTall>>)>>
    /\ outputs # <<>> /\ outputs[1].ripeness = <<>> /\ outputs[1].thermal = <<MapTall>>
    /\ response # NoResponse /\ response[1].status = 500

\* the scores build_predictions was called with
Scores == outputs[1].ripeness[1].data

\* the label of class index i (counted from 0): labels[i] when labels is
\* given and has an entry at i, else class_<i>
ExpectedLabel(i) == IF labels # <<>> /\ i < Len(labels[1]) THEN labels[1][i + 1] ELSE class_(i)

\* the prediction item of class index i with confidence c
Item(i, c) == [label |-> ExpectedLabel(i), confidence |-> c]

\* the first n elements of a sequence
FirstN(seq, n) == [k \in 1..(IF n < Len(seq) THEN n ELSE Len(seq)) |-> seq[k]]

ClassProbs == IF Len(Scores) = 1 THEN <<100 - Scores[1], Scores[1]>> ELSE Scores

\* the labels carried by the returned items
ReturnedLabels == {predictions[k].label : k \in 1..Len(predictions)}

\* C12: every returned item is the item of one class index i, a different i
\* for each item, and carries labels[i] when labels has an entry at i and
\* class_<i> otherwise; a label beyond the class count is never returned.
C12_LabelsByClassIndex ==
    (pc = "return" /\ outputs # <<>>) =>
        /\ \E f \in [1..Len(predictions) -> 0..(Len(ClassProbs) - 1)] :
              /\ \A j, k \in 1..Len(predictions) : f[j] = f[k] => j = k
              /\ \A k \in 1..Len(predictions) : predictions[k] = Item(f[k], ClassProbs[f[k] + 1])
        /\ labels # <<>> => \A j \in (Len(ClassProbs) + 1)..Len(labels[1]) : labels[1][j] \notin ReturnedLabels

C12_Witness ==
    /\ pc = "return" /\ outputs # <<>>
    /\ Scores = <<20, 80, 50>> /\ labels = <<SubSeq(AllLabels, 1, 2)>> /\ top_k = 3
    /\ predictions = <<[label |-> Label("ripe"), confidence |-> 80], [label |-> class_(2), confidence |-> 50], [label |-> Label("unripe"), confidence |-> 20]>>

\* the place of class index i (counted from 0) in the ranking: after every
\* class of higher confidence and every earlier class of equal confidence
Place(i) ==
    1 + Cardinality({j \in 0..(Len(ClassProbs) - 1) :
                        \/ ClassProbs[j + 1] > ClassProbs[i + 1]
                        \/ ClassProbs[j + 1] = ClassProbs[i + 1] /\ j < i})

\* C17: the result is the first min(top_k, class count) items of the classes
\* ordered by confidence descending, equal confidences in ascending class
\* index order; empty scores give the empty sequence.
C17_DescendingStableTruncated ==
    (pc = "return" /\ outputs # <<>>) =>
        /\ Len(predictions) = Min(top_k, Len(ClassProbs))
        /\ \A i \in 0..(Len(ClassProbs) - 1) :
              Place(i) <= Len(predictions) => predictions[Place(i)] = Item(i, ClassProbs[i + 1])
        /\ Scores = <<>> => predictions = <<>>

C17_Witness ==
    /\ pc = "return" /\ outputs # <<>>
    /\ Scores = <<50, 80, 50>> /\ labels = <<>> /\ top_k = 2
    /\ predictions = <<[label |-> class_(1), confidence |-> 80], [label |-> class_(0), confidence |-> 50]>>

\* render_thermal_image was called for this request and raised
RenderFailed == pc \in {"respond", "done"} /\ CallsOf("render_thermal_image") # {} /\ thermal_b64 = <<>>

\* C13: a request that passed the gate and got its ripeness from the model
\* ends as a success with is_guava = TRUE, the predictions built from the
\* ripeness and thermal_image null when rendering the heat-map fails; without
\* a thermal output render_thermal_image is not called and thermal_image is null.
C13_RenderFailureIsNotFatal ==
    /\ (pc = "done" /\ RenderFailed /\ outputs[1].ripeness # <<>>) =>
          /\ decision[1].is_guava
          /\ response = OkResponse(TRUE, decision[1], build_predictions(outputs[1].ripeness, labels, DEFAULT_TOP_K), <<>>)
    /\ (outputs # <<>> /\ outputs[1].thermal = <<>>) =>
          /\ CallsOf("render_thermal_image") = {}
          /\ thermal_b64 = <<>>
          /\ (pc = "done" /\ response[1].success) => response[1].thermal_image = <<>>

C13_Witness ==
    /\ pc = "done" /\ RenderFailed
    /\ outputs[1].ripeness = <<AsRow(MatHigh)>> /\ outputs[1].thermal = <<MapTall>>
    /\ response[1].status = 200 /\ response[1].is_guava = <<TRUE>>
    /\ response[1].predictions[1] # <<>> /\ response[1].thermal_image = <<>>

\* the decoders tried for the request, in order
Tried == [k \in 1..Len(SelectSeq(calls, LAMBDA c : c.fn \in {"cv2.imdecode", "Image.open"})) |->
             SelectSeq(calls, LAMBDA c : c.fn \in {"cv2.imdecode", "Image.open"})[k].fn]

\* the request was answered with the decode error
DecodeError == pc = "done" /\ response = ErrorResponse(400, "Cannot decode image")

\* C15: once decoding was run, OpenCV was tried first; Pillow was tried
\* exactly when OpenCV failed (returned None or raised); the decode error is
\* the answer only when both were tried and both failed; whichever succeeds
\* yields the picture.
C15_DecodeFallsBackBeforeFailing ==
    (pc \notin {"idle", "guard", "decode"} /\ calls # <<>>) =>
        LET fb == upload[1].file_bytes
        IN /\ Tried = IF fb.cv = "ok" THEN <<"cv2.imdecode">> ELSE <<"cv2.imdecode", "Image.open">>
           /\ DecodeError <=> (fb.cv # "ok" /\ fb.pil # "ok")
           /\ DecodeError => (Tried = <<"cv2.imdecode", "Image.open">> /\ img_rgb = <<>>)
           /\ (fb.cv = "ok" \/ fb.pil = "ok") => img_rgb = fb.image

C15_Witness ==
    /\ DecodeError
    /\ upload[1].file_bytes.cv = "raise" /\ upload[1].file_bytes.pil = "raise"
    /\ Tried = <<"cv2.imdecode", "Image.open">>

\* C16: without a loaded model a request goes from the guards straight to
\* the 503 "Model not loaded" answer: nothing is decoded, no gate is
\* evaluated, nothing is preprocessed and the model is not run.
C16_NoModelRefused ==
    (started /\ model = <<>> /\ pc \notin {"idle", "guard"}) =>
        /\ pc = "done"
        /\ response = ErrorResponse(503, "Model not loaded")
        /\ calls = <<>>
        /\ img_rgb = <<>> /\ decision = <<>> /\ input_array = <<>> /\ raw = <<>> /\ outputs = <<>>

C16_Witness ==
    /\ started /\ model = <<>> /\ gate # <<>> /\ pc = "done"
    /\ upload[1].content_type = "image/png" /\ upload[1].file_bytes.cv = "ok"
    /\ response = ErrorResponse(503, "Model not loaded")
    /\ calls = <<>>

\* C14: the tensor returned for a picture and a target (height, width,
\* channels) has the shape (1, height, width, channels).
C14_ShapeIsRequested ==
    (pc = "return" /\ input_array # <<>>) =>
        input_array[1].shape = <<1, input_size[1], input_size[2], channels>>

\* supplementary to C14: the shape is the requested one for 1 and 3 channels,
\* and the batch dimension is 1 and height and width are the requested ones
\* for every channel count
C14_ShapeWhenOneOrThree ==
    (pc = "return" /\ input_array # <<>>) =>
        /\ input_array[1].shape[1] = 1
        /\ input_array[1].shape[2] = input_size[1] /\ input_array[1].shape[3] = input_size[2]
        /\ channels \in {1, 3} => input_array[1].shape[4] = channels
        /\ channels \notin {1, 3} => input_array[1].shape[4] = 3

\* C18: once startup has completed the context holds a gate, and a request
\* whose picture was decoded gets a gate decision.
C18_GatePresentAfterStartup ==
    /\ started => gate # <<>>
    /\ (pc = "done" /\ img_rgb # <<>>) => decision # <<>>

\* supplementary to C18: with the state lifespan leaves behind, every decoded
\* request ends as an unhandled error at the gate step
C18_NoGateMeansError ==
    (gate = <<>> /\ pc = "done" /\ img_rgb # <<>>) =>
        (response = ErrorResponse(500, "Internal Server Error") /\ CallsOf("check_color") = {})

====
